---- MODULE Spec2Model ----
(***************************************************************************)
(* The report-count engine of the S3 report browser: the useCalendar hook  *)
(* in its three variants (guarded fan-out with config TTL, batch with one  *)
(* month-scoped request, fan-out over a trailing window), the module-level *)
(* reportCountsCache they share the shape of, and the remote list endpoint *)
(* they call through listReports.                                          *)
(*                                                                         *)
(* JavaScript runs the hook on one thread: an effect, and the continuation *)
(* of an await together with the microtasks it releases, run to completion *)
(* before the next event is taken.  Each action below is one such run.     *)
(***************************************************************************)
EXTENDS Integers, Sequences, FiniteSets, TLC

VARIABLES
    strategy,            \* which variant of the hook is mounted
    api,                 \* the shape of res.data the deployed endpoint answers with
    today,               \* the date new Date() yields
    now,                 \* Date.now(), in ms since the session started
    cache,               \* reportCountsCache: month key -> {counts, timestamp}
    reportCounts,        \* useState reportCounts: the published table
    loading,             \* useState loading
    currentMonthKey,     \* useRef currentMonthKey
    isInitialized,       \* useRef isInitialized
    abortController,     \* useRef abortController (fan-out variant)
    attempts,            \* the calls of the fetch function that went remote
    results,             \* the results of await Promise.all in the run just made
    mounted,             \* the component that uses the hook is mounted
    calendarMonth,       \* Calendar: useState currentMonth, as a month key
    selectedPrefix,      \* useReports: prefix, of the selected date
    reports,             \* useReports: useState reports
    reportsLoading,      \* useReports: useState loading
    error,               \* useReports: useState error
    listRequests         \* useReports: the calls of listReports, in call order

vars == <<strategy, api, today, now, cache, reportCounts, loading, currentMonthKey,
          isInitialized, abortController, attempts, results, mounted, calendarMonth,
          selectedPrefix, reports, reportsLoading, error, listRequests>>

\* the state of useReports
reportsVars == <<selectedPrefix, reports, reportsLoading, error, listRequests>>

---------------------------------------------------------------------------
(* Bounds of the model *)

\* days of a month that are modelled (the first MaxDay days of each month)
MaxDay == 2
\* calls of the fetch function that start remote requests, per session
MaxAttempts == 3
\* the remote holds 0..MaxCount reports under a day prefix
MaxCount == 2
\* calls of listReports that useReports makes, per session
MaxRequests == 3
\* the clock is observed around the multiples 0..MaxPeriods of the TTL
MaxPeriods == 1
\* distance in ms between the observed instants around a multiple of the TTL
Granularity == 1000

---------------------------------------------------------------------------
(* Dates, keys and tables *)

Date(y, m, d) == [y |-> y, m |-> m, d |-> d]

\* useState<Date | null>(null)
NoDate == Date(0, 0, 0)

\* useRef<string>('')
NoMonth == <<0, 0>>

\* the prefix of no date: ''
NoPrefix == <<0, 0, 0>>

MonthKeys == {<<2025, 6>>, <<2025, 7>>}

\* format(date, 'yyyy-MM')
FormatMonthKey(date) == <<date.y, date.m>>

\* format(day, 'yyyy-MM-dd'): the key of a day in a table
FormatDateStr(date) == <<date.y, date.m, date.d>>

\* format(day, 'yyyy/MM/dd'): the prefix sent to the list endpoint
FormatPrefix(date) == <<date.y, date.m, date.d>>

IsLeapYear(y) == (y % 4 = 0 /\ y % 100 # 0) \/ y % 400 = 0

MonthLength(y, m) ==
    IF m \in {4, 6, 9, 11} THEN 30
    ELSE IF m = 2 THEN (IF IsLeapYear(y) THEN 29 ELSE 28)
    ELSE 31

Min(a, b) == IF a <= b THEN a ELSE b

\* eachDayOfInterval({start: startOfMonth(date), end: endOfMonth(date)})
DaysOfMonth(mk) ==
    {Date(mk[1], mk[2], d) : d \in 1..Min(MonthLength(mk[1], mk[2]), MaxDay)}

DayKeys(mk) == {FormatDateStr(day) : day \in DaysOfMonth(mk)}

AllDates == UNION {DaysOfMonth(mk) : mk \in MonthKeys}

\* the value undefined, as a count: no array has this length
Undefined == -1

\* useState<Record<string, number>>({})
EmptyTable == [k \in {} |-> 0]

\* counts[dateStr] = 0 for every day of the month
ZeroTable(mk) == [k \in DayKeys(mk) |-> 0]

---------------------------------------------------------------------------
(* Time and the cache *)

\* const CACHE_DURATION = 10 * 60 * 1000 (batch and trailing-window variants)
CACHE_DURATION == 10 * 60 * 1000

\* config.cacheDuration (fan-out variant)
cacheDuration == 30 * 60 * 1000

TTL(s) == IF s = "fanout" THEN cacheDuration ELSE CACHE_DURATION

\* the instants at which the clock is read: just before and at each multiple
\* of the TTL, and just after it where the model stays small
Instants(s) ==
    {0} \cup UNION {{k * TTL(s) - Granularity, k * TTL(s)} : k \in 1..MaxPeriods}
        \cup (IF s = "batch" THEN {k * TTL(s) + Granularity : k \in 1..MaxPeriods}
              ELSE {})

IsCacheValidMutantLeq(monthKey) ==
    IF monthKey \notin DOMAIN cache THEN FALSE
    ELSE now - cache[monthKey].timestamp <= TTL(strategy)

\* isCacheValid
IsCacheValid(monthKey) ==
    IF monthKey \notin DOMAIN cache THEN FALSE
    ELSE now - cache[monthKey].timestamp < TTL(strategy)

CacheSetMutantKeepTimestamp(monthKey, counts) ==
    [k \in DOMAIN cache \cup {monthKey} |->
        IF k = monthKey
        THEN [counts |-> counts,
              timestamp |-> IF k \in DOMAIN cache THEN cache[k].timestamp ELSE now]
        ELSE cache[k]]

\* reportCountsCache.set(monthKey, {counts, timestamp: Date.now()})
CacheSet(monthKey, counts) ==
    [k \in DOMAIN cache \cup {monthKey} |->
        IF k = monthKey THEN [counts |-> counts, timestamp |-> now] ELSE cache[k]]

---------------------------------------------------------------------------
(* The remote list endpoint, as listReports sees it *)

\* the number of reports the bucket holds under a day prefix
ReportsUnder(prefix) == (prefix[2] + prefix[3]) % (MaxCount + 1)

\* a thrown or rejected value: an Error with a name, a string, or null
ErrorNamed(name) == [what |-> "error", name |-> name]

TypeError == ErrorNamed("TypeError")

\* the ways GET /list-reports?prefix=... settles: res.data is a raw array of
\* the reports, the documented object {reports, details, ...}, or null; or the
\* request rejects with an Error, an AbortError, a string or null
ListReportsOutcomes(prefix) ==
    {[settle |-> "resolve", what |-> w, n |-> ReportsUnder(prefix), name |-> ""]
        : w \in {api, "null"}}
    \cup {[settle |-> "reject", what |-> "error", n |-> 0, name |-> nm]
        : nm \in {"AxiosError", "AbortError"}}
    \cup {[settle |-> "reject", what |-> w, n |-> 0, name |-> "undefined"]
        : w \in {"string", "nullish"}}

\* a request that answered with the reports of the prefix
Succeeded(o) == o.settle = "resolve" /\ o.what # "null"

\* reports.length
LengthOf(data) == IF data.what = "array" THEN data.n ELSE Undefined

Return(count) == [tag |-> "return", count |-> count, err |-> ErrorNamed("")]

Throw(e) == [tag |-> "throw", count |-> 0, err |-> e]

CatchDayMutantRethrow(e) == Throw(e)

\* the catch block of a day request: error.name on null throws a TypeError,
\* an AbortError is re-thrown, anything else counts 0
CatchDay(e) ==
    IF e.what = "nullish" THEN Throw(TypeError)
    ELSE IF e.name = "AbortError" THEN Throw(e)
    ELSE Return(0)

\* one element of days.map(async (day) => { try ... catch ... })
DayRequest(o) ==
    IF o.settle = "resolve"
    THEN IF o.what = "null" THEN CatchDay(TypeError) ELSE Return(LengthOf(o))
    ELSE CatchDay([what |-> o.what, name |-> o.name])

\* the catch block around await Promise.all: what becomes of the attempt
OuterCatch(e) ==
    IF e.what = "nullish" THEN "rejected"
    ELSE IF e.name = "AbortError" THEN "aborted"
    ELSE "failed"

---------------------------------------------------------------------------
(* Attempts: the calls of the fetch function that issued remote requests *)

Pending == [st |-> "pending", count |-> 0]

\* promises = days.map(...): one pending request per requested day
NewAttempt(monthKey, days) ==
    [month   |-> monthKey,
     res     |-> [k \in {FormatPrefix(day) : day \in days} |-> Pending],
     status  |-> "fetching",
     aborted |-> FALSE]

\* an attempt whose promise has settled: its requests no longer matter
Finished(a, status) ==
    [month |-> a.month, res |-> [k \in {} |-> Pending], status |-> status,
     aborted |-> a.aborted]

\* no continuation of await Promise.all ran in the run just made
NoResults == [month |-> NoMonth, res |-> [k \in {} |-> Pending]]

Attempts == 1..Len(attempts)

Fetching(i) == i \in Attempts /\ attempts[i].status = "fetching"

\* abortController.current.abort() on the controller of an earlier call
AbortPrevious ==
    [i \in Attempts |->
        IF i = abortController THEN [attempts[i] EXCEPT !.aborted = TRUE]
        ELSE attempts[i]]

\* results.forEach(({dateStr, count}) => { counts[dateStr] = count })
Aggregate(monthKey, res) ==
    [k \in DayKeys(monthKey) |-> IF k \in DOMAIN res THEN res[k].count ELSE 0]

AllSettledMutantAny(res) == \E k \in DOMAIN res : res[k] # Pending

\* await Promise.all(promises): every promise of the array has resolved
AllSettled(res) == \A k \in DOMAIN res : res[k] # Pending

StillCurrentMutantAlways(monthKey) == TRUE

\* monthKey === currentMonthKey.current
StillCurrent(monthKey) == monthKey = currentMonthKey

---------------------------------------------------------------------------
(* Fan-out variant: one request per day of the month *)

\* fetchReportCounts(date), up to the await
FanFetchReportCounts(date) ==
    LET monthKey == FormatMonthKey(date) IN
    IF /\ IsCacheValid(monthKey)
       /\ Cardinality(DOMAIN cache[monthKey].counts) > 0
    THEN /\ reportCounts' = cache[monthKey].counts
         /\ attempts' = AbortPrevious
         /\ abortController' = -1
         /\ results' = NoResults
         /\ UNCHANGED <<loading, cache>>
    ELSE /\ Len(attempts) < MaxAttempts
         /\ loading' = TRUE
         /\ reportCounts' = ZeroTable(monthKey)
         /\ attempts' = Append(AbortPrevious, NewAttempt(monthKey, DaysOfMonth(monthKey)))
         /\ abortController' = Len(attempts) + 1
         /\ results' = NoResults
         /\ UNCHANGED cache

\* the effect that initializes the hook with the current month
FanMount ==
    /\ strategy = "fanout"
    /\ mounted
    /\ ~isInitialized
    /\ isInitialized' = TRUE
    /\ currentMonthKey' = FormatMonthKey(today)
    /\ IF IsCacheValid(FormatMonthKey(today))
       THEN /\ reportCounts' = cache[FormatMonthKey(today)].counts
            /\ results' = NoResults
            /\ UNCHANGED <<loading, cache, attempts, abortController>>
       ELSE FanFetchReportCounts(today)
    /\ UNCHANGED <<strategy, api, today, mounted, calendarMonth, reportsVars, now>>

\* the body shared by the two effects that follow a change of date
FanMonthEffect(date) ==
    IF FormatMonthKey(date) # currentMonthKey \/ ~IsCacheValid(FormatMonthKey(date))
    THEN /\ currentMonthKey' = FormatMonthKey(date)
         /\ FanFetchReportCounts(date)
    ELSE /\ results' = NoResults
         /\ UNCHANGED <<currentMonthKey, reportCounts, loading, cache, attempts,
                         abortController>>

\* setSelectedDate(date) and the effect on selectedDate
FanSelectDate(date) ==
    /\ strategy = "fanout"
    /\ mounted
    /\ isInitialized
    /\ FanMonthEffect(date)
    /\ UNCHANGED <<strategy, api, today, mounted, calendarMonth, reportsVars, now, isInitialized>>

\* setCurrentDisplayMonth(date) and the effect on currentDisplayMonth
FanSetDisplayMonth(date) ==
    /\ strategy = "fanout"
    /\ mounted
    /\ isInitialized
    /\ FanMonthEffect(date)
    /\ UNCHANGED <<strategy, api, today, mounted, calendarMonth, reportsVars, now, isInitialized>>

\* the finally block: setLoading(false) when the month is still current
FanFinally(monthKey) ==
    loading' = IF monthKey = currentMonthKey THEN FALSE ELSE loading

\* await Promise.all resolved: cache the table, publish it if still current
FanJoined(i, res) ==
    LET monthKey == attempts[i].month
        counts == Aggregate(monthKey, res)
    IN /\ results' = [month |-> monthKey, res |-> res]
       /\ cache' = CacheSet(monthKey, counts)
       /\ reportCounts' = IF StillCurrent(monthKey) THEN counts ELSE reportCounts
       /\ FanFinally(monthKey)
       /\ attempts' = [attempts EXCEPT
                          ![i] = Finished(@, IF StillCurrent(monthKey) THEN "committed"
                                             ELSE "cached")]

\* await Promise.all rejected with e: the catch block, then finally
FanRejected(i, e) ==
    /\ FanFinally(attempts[i].month)
    /\ attempts' = [attempts EXCEPT ![i] = Finished(@, OuterCatch(e))]
    /\ results' = NoResults
    /\ UNCHANGED <<cache, reportCounts>>

\* one day request of attempt i settles, and what the attempt does then
FanSettle(i, k, o) ==
    /\ strategy = "fanout"
    /\ Fetching(i)
    /\ k \in DOMAIN attempts[i].res
    /\ attempts[i].res[k] = Pending
    /\ LET r == DayRequest(o)
           res == [attempts[i].res EXCEPT
                     ![k] = [st |-> IF Succeeded(o) THEN "ok" ELSE "caught",
                             count |-> r.count]]
       IN IF r.tag = "throw" THEN FanRejected(i, r.err)
          ELSE IF AllSettled(res) THEN FanJoined(i, res)
          ELSE /\ attempts' = [attempts EXCEPT ![i].res = res]
               /\ results' = NoResults
               /\ UNCHANGED <<cache, reportCounts, loading>>
    /\ UNCHANGED <<strategy, api, today, mounted, calendarMonth, reportsVars, now, currentMonthKey, isInitialized,
                   abortController>>

\* time passes
Tick ==
    /\ \E t \in Instants(strategy) : t > now /\ now' = t
    /\ results' = NoResults
    /\ UNCHANGED <<strategy, api, today, mounted, calendarMonth, reportsVars, cache, reportCounts, loading, currentMonthKey,
                   isInitialized, abortController, attempts>>

Todays == {Date(2025, 6, 29)}

InitHook ==
    /\ now = 0
    /\ cache = [k \in {} |-> 0]
    /\ reportCounts = EmptyTable
    /\ loading = FALSE
    /\ currentMonthKey = NoMonth
    /\ isInitialized = FALSE
    /\ abortController = 0
    /\ attempts = <<>>
    /\ results = NoResults
    /\ mounted = TRUE

\* useReports after construction: no date, no reports, nothing requested
InitReports ==
    /\ selectedPrefix = NoPrefix
    /\ reports = <<>>
    /\ reportsLoading = FALSE
    /\ error = "null"
    /\ listRequests = <<>>

\* the hook on its own: no Calendar and no useReports around it
InitHookOnly == InitHook /\ calendarMonth = NoMonth /\ InitReports

InitFan ==
    /\ strategy = "fanout"
    /\ api \in {"array", "object"}
    /\ InitHookOnly
    /\ today \in Todays

NextFan ==
    \/ FanMount
    \/ \E date \in AllDates : FanSelectDate(date)
    \/ \E mk \in MonthKeys : FanSetDisplayMonth(Date(mk[1], mk[2], 1))
    \/ \E i \in Attempts : \E k \in DOMAIN attempts[i].res :
          \E o \in ListReportsOutcomes(k) : FanSettle(i, k, o)
    \/ Tick

SpecFan == InitFan /\ [][NextFan]_vars

FanUnmountMutantClear ==
    /\ strategy = "fanout"
    /\ mounted
    /\ isInitialized
    /\ mounted' = FALSE
    /\ attempts' = AbortPrevious
    /\ results' = NoResults
    /\ cache' = [k \in {} |-> 0]
    /\ UNCHANGED <<strategy, api, today, now, reportCounts, loading, currentMonthKey,
                   isInitialized, abortController, calendarMonth, reportsVars>>

\* the cleanup of the effect that runs on unmount: abort() on the controller
\* of the last call; the requests themselves were started without a signal
FanUnmount ==
    /\ strategy = "fanout"
    /\ mounted
    /\ isInitialized
    /\ mounted' = FALSE
    /\ attempts' = AbortPrevious
    /\ results' = NoResults
    /\ UNCHANGED <<strategy, api, today, now, cache, reportCounts, loading,
                   currentMonthKey, isInitialized, abortController, calendarMonth,
                   reportsVars>>

\* the fan-out variant with the component that uses it unmounting
NextFanTeardown == NextFan \/ FanUnmount

SpecFanTeardown == InitFan /\ [][NextFanTeardown]_vars

---------------------------------------------------------------------------
(* The Calendar component on the fan-out hook, wired as App wires them:   *)
(* App hands the Calendar selectedDate, reportCounts, loading and a       *)
(* callback that calls setSelectedDate; useReports is modelled apart.     *)

\* addMonths(currentMonth, n) and subMonths(currentMonth, -n), on month keys
AddMonths(mk, n) ==
    LET t == mk[1] * 12 + (mk[2] - 1) + n IN <<t \div 12, (t % 12) + 1>>

\* setCurrentMonth(month): the state of the Calendar, and nothing else
SetCurrentMonth(month) ==
    /\ strategy = "fanout"
    /\ mounted
    /\ isInitialized
    /\ month \in MonthKeys
    /\ calendarMonth' = month
    /\ results' = NoResults
    /\ UNCHANGED <<strategy, api, today, mounted, now, cache, reportCounts, loading,
                   currentMonthKey, isInitialized, abortController, attempts,
                   reportsVars>>

\* Calendar: handlePreviousMonth
HandlePreviousMonth == SetCurrentMonth(AddMonths(calendarMonth, -1))

\* Calendar: handleNextMonth
HandleNextMonth == SetCurrentMonth(AddMonths(calendarMonth, 1))

\* Calendar: a click on a day of the month on display; handleDateClick calls
\* onDateSelect, which is App's handleDateSelect: setSelectedDate(date)
HandleDateClick(date) ==
    /\ FormatMonthKey(date) = calendarMonth
    /\ FanSelectDate(date)

\* App after construction: the Calendar shows the month of today
InitApp ==
    /\ strategy = "fanout"
    /\ api = "object"
    /\ InitHook
    /\ today \in Todays
    /\ calendarMonth = FormatMonthKey(today)
    /\ InitReports

NextApp ==
    \/ FanMount
    \/ \E date \in AllDates : HandleDateClick(date)
    \/ HandlePreviousMonth
    \/ HandleNextMonth
    \/ \E i \in Attempts : \E k \in DOMAIN attempts[i].res :
          \E o \in ListReportsOutcomes(k) : FanSettle(i, k, o)
    \/ Tick

SpecApp == InitApp /\ [][NextApp]_vars

---------------------------------------------------------------------------
(* Batch variant: one request for the whole month *)

\* format(date, 'yyyy/MM/'): the prefix of a month
FormatMonthPrefix(date) == <<date.y, date.m>>

\* a path segment: its text as a number, and how many digits it has
Segment(val, digits) == [val |-> val, digits |-> digits]

\* the path of the n-th report of a day: YYYY/MM/DD/report_n.csv
ReportPath(day, n) ==
    <<Segment(day.y, 4), Segment(day.m, 2), Segment(day.d, 2), Segment(n, 0)>>

RECURSIVE ReportsOfDay(_, _)
\* the items the bucket lists for one day
ReportsOfDay(day, n) ==
    IF n = 0 THEN <<>>
    ELSE Append(ReportsOfDay(day, n - 1), [path |-> ReportPath(day, n)])

RECURSIVE ListingFrom(_, _)
\* the items the bucket lists for the days d..MaxDay of a month, in key order
ListingFrom(mk, d) ==
    IF Date(mk[1], mk[2], d) \notin DaysOfMonth(mk) THEN <<>>
    ELSE ReportsOfDay(Date(mk[1], mk[2], d),
                      ReportsUnder(FormatPrefix(Date(mk[1], mk[2], d))))
         \o ListingFrom(mk, d + 1)

\* the per-day counts the backend computes: the days that hold reports
BackendCounts(mk) ==
    [k \in {k2 \in DayKeys(mk) : ReportsUnder(k2) > 0} |-> ReportsUnder(k)]

NoCounts == [k \in {} |-> 0]

\* the key "constructor": counts is an object literal, so counts["constructor"]
\* is the inherited Object.prototype.constructor and is not undefined. The
\* keys of a table are day strings, modelled as triples; this triple is the
\* one key of the model that is not a day string.
ConstructorKey == <<0, 0, 1>>

ObjectPrototypeKeys == {ConstructorKey}

\* the month of MonthKeys that follows mk, cyclically
OtherMonth(mk) == CHOOSE m \in MonthKeys : m # mk

\* a counts mapping that disagrees with the listing: the first day of the
\* month holds MaxCount + 1 reports, a day of another month holds one
ForeignCounts(mk) ==
    [k \in {<<mk[1], mk[2], 1>>, <<OtherMonth(mk)[1], OtherMonth(mk)[2], 1>>} |->
        IF k[2] = mk[2] THEN MaxCount + 1 ELSE 1]

\* a counts mapping with a key that names an inherited property
InheritedCounts(mk) == [k \in {ConstructorKey} |-> 1]

\* further objects a bucket may hold under the prefix YYYY/MM/ of mk:
\*   YYYY/MM/summary.csv                 no date in the path
\*   YYYY/MM/archive/yyyy/mm/01/r.csv    the date of a day of another month
\*   YYYY/MM/01/YYYY/MM/02/r.csv         two dates, of day 1 and of day 2
\*   YYYY/MM/021/r.csv                   a third segment that starts with 02
StrayItems(mk) ==
    <<[path |-> <<Segment(mk[1], 4), Segment(mk[2], 2), Segment(0, 0)>>],
      [path |-> <<Segment(mk[1], 4), Segment(mk[2], 2), Segment(0, 0),
                  Segment(OtherMonth(mk)[1], 4), Segment(OtherMonth(mk)[2], 2),
                  Segment(1, 2), Segment(0, 0)>>],
      [path |-> <<Segment(mk[1], 4), Segment(mk[2], 2), Segment(1, 2),
                  Segment(mk[1], 4), Segment(mk[2], 2), Segment(2, 2),
                  Segment(0, 0)>>],
      [path |-> <<Segment(mk[1], 4), Segment(mk[2], 2), Segment(21, 3),
                  Segment(0, 0)>>]>>

\* the ways GET /list-reports?prefix=YYYY/MM/ settles: an object with a
\* counts mapping, an object with only the details listing, an object with
\* neither, null, or a rejection
MonthOutcomes(mk) ==
    {[settle |-> "resolve", what |-> "counts", counts |-> c,
      details |-> ListingFrom(mk, 1)] :
        c \in {BackendCounts(mk), ForeignCounts(mk), InheritedCounts(mk)}}
    \cup
    {[settle |-> "resolve", what |-> "details", counts |-> NoCounts,
      details |-> ListingFrom(mk, 1) \o extra] : extra \in {<<>>, StrayItems(mk)}}
    \cup
    {[settle |-> "resolve", what |-> "neither", counts |-> NoCounts, details |-> <<>>],
     [settle |-> "resolve", what |-> "null", counts |-> NoCounts, details |-> <<>>],
     [settle |-> "reject", what |-> "error", counts |-> NoCounts, details |-> <<>>]}

\* counts[dayStr] !== undefined: an own entry of the table, or a property
\* every object literal inherits
IsDefinedIn(counts, dayStr) ==
    dayStr \in DOMAIN counts \/ dayStr \in ObjectPrototypeKeys

\* Object.entries(backendCounts).forEach: counts[dayStr] = count for the
\* entries whose key reads as defined in the table
CopyCounts(counts, backendCounts) ==
    [k \in DOMAIN counts \cup
            {k2 \in DOMAIN backendCounts : IsDefinedIn(counts, k2)} |->
        IF k \in DOMAIN backendCounts THEN backendCounts[k] ELSE counts[k]]

\* /\d{4}\/\d{2}\/\d{2}/ matches where segment i ends with four digits,
\* segment i + 1 is two digits and segment i + 2 starts with two digits
\* (a segment of the model is all digits or has none)
IsDateAt(path, i) ==
    /\ i + 2 <= Len(path)
    /\ path[i].digits >= 4
    /\ path[i + 1].digits = 2
    /\ path[i + 2].digits >= 2

\* variant of MatchAt: the last place where the pattern matches
MatchAtMutantLast(path) ==
    LET hits == {i \in 1..Len(path) : IsDateAt(path, i)}
    IN IF hits = {} THEN 0 ELSE CHOOSE i \in hits : \A j \in hits : i >= j

\* report.path.match(/\d{4}\/\d{2}\/\d{2}/): the first place in the path where
\* the pattern matches, 0 if none
MatchAt(path) ==
    LET hits == {i \in 1..Len(path) : IsDateAt(path, i)}
    IN IF hits = {} THEN 0 ELSE CHOOSE i \in hits : \A j \in hits : i <= j

\* const [y, m, d] = match[0].split('/'); dayStr = `${y}-${m}-${d}`: the
\* last four digits of segment i, segment i + 1, the first two digits of
\* segment i + 2
DayStrAt(path, i) ==
    <<path[i].val % 10000, path[i + 1].val,
      path[i + 2].val \div (10 ^ (path[i + 2].digits - 2))>>

RECURSIVE GroupDetails(_, _)
\* response.details.forEach: count each item under the day in its path
GroupDetails(counts, details) ==
    IF details = <<>> THEN counts
    ELSE LET path == Head(details).path
             i == MatchAt(path)
             next == IF i > 0 /\ DayStrAt(path, i) \in DOMAIN counts
                     THEN [counts EXCEPT ![DayStrAt(path, i)] = @ + 1]
                     ELSE counts
         IN GroupDetails(next, Tail(details))

\* the table the try block builds from an answered month request
MonthTable(mk, o) ==
    IF o.what = "counts" THEN CopyCounts(ZeroTable(mk), o.counts)
    ELSE IF o.what = "details" THEN GroupDetails(ZeroTable(mk), o.details)
    ELSE ZeroTable(mk)

\* the month request threw inside the try block: it rejected, or response
\* was null and response.counts threw
MonthRequestThrows(o) == o.settle = "reject" \/ o.what = "null"

\* fetchMonthReportCounts(date), up to the await
BatchFetch(date) ==
    LET monthKey == FormatMonthKey(date) IN
    IF IsCacheValid(monthKey)
    THEN /\ reportCounts' = cache[monthKey].counts
         /\ UNCHANGED <<loading, attempts>>
    ELSE /\ Len(attempts) < MaxAttempts
         /\ loading' = TRUE
         /\ attempts' = Append(attempts,
                [month |-> monthKey,
                 res |-> [k \in {FormatMonthPrefix(date)} |-> Pending],
                 status |-> "fetching", aborted |-> FALSE])
         /\ UNCHANGED reportCounts

\* the effect that initializes the hook: zero table, then the fetch
BatchMount ==
    /\ strategy = "batch"
    /\ mounted
    /\ ~isInitialized
    /\ isInitialized' = TRUE
    /\ currentMonthKey' = FormatMonthKey(today)
    /\ IF IsCacheValid(FormatMonthKey(today))
       THEN /\ reportCounts' = cache[FormatMonthKey(today)].counts
            /\ UNCHANGED <<loading, attempts>>
       ELSE /\ Len(attempts) < MaxAttempts
            /\ reportCounts' = ZeroTable(FormatMonthKey(today))
            /\ loading' = TRUE
            /\ attempts' = Append(attempts,
                   [month |-> FormatMonthKey(today),
                    res |-> [k \in {FormatMonthPrefix(today)} |-> Pending],
                    status |-> "fetching", aborted |-> FALSE])
    /\ results' = NoResults
    /\ UNCHANGED <<strategy, api, today, mounted, calendarMonth, reportsVars, now, cache, abortController>>

\* setSelectedDate(date) and the effect on selectedDate
BatchSelectDate(date) ==
    /\ strategy = "batch"
    /\ mounted
    /\ isInitialized
    /\ IF FormatMonthKey(date) # currentMonthKey \/ ~IsCacheValid(FormatMonthKey(date))
       THEN /\ currentMonthKey' = FormatMonthKey(date)
            /\ BatchFetch(date)
       ELSE UNCHANGED <<currentMonthKey, reportCounts, loading, attempts>>
    /\ results' = NoResults
    /\ UNCHANGED <<strategy, api, today, mounted, calendarMonth, reportsVars, now, cache, isInitialized, abortController>>

\* the month request of attempt i settles: try, catch and finally
BatchSettle(i, o) ==
    /\ strategy = "batch"
    /\ Fetching(i)
    /\ IF MonthRequestThrows(o)
       THEN /\ attempts' = [attempts EXCEPT ![i] = Finished(@, "failed")]
            /\ UNCHANGED <<cache, reportCounts>>
       ELSE /\ cache' = CacheSet(attempts[i].month, MonthTable(attempts[i].month, o))
            /\ reportCounts' = MonthTable(attempts[i].month, o)
            /\ attempts' = [attempts EXCEPT ![i] = Finished(@, "committed")]
    /\ loading' = FALSE
    /\ results' = NoResults
    /\ UNCHANGED <<strategy, api, today, mounted, calendarMonth, reportsVars, now, currentMonthKey, isInitialized,
                   abortController>>

InitBatch ==
    /\ strategy = "batch"
    /\ api = "object"
    /\ InitHookOnly
    /\ today \in Todays

NextBatch ==
    \/ BatchMount
    \/ \E date \in AllDates : BatchSelectDate(date)
    \/ \E i \in Attempts : \E o \in MonthOutcomes(attempts[i].month) : BatchSettle(i, o)
    \/ Tick

SpecBatch == InitBatch /\ [][NextBatch]_vars

---------------------------------------------------------------------------
(* Trailing-window variant: requests only for recent days *)

RECURSIVE DaysBeforeMonth(_, _)
\* the days of year y before its month m
DaysBeforeMonth(y, m) ==
    IF m <= 1 THEN 0 ELSE DaysBeforeMonth(y, m - 1) + MonthLength(y, m - 1)

RECURSIVE DaysBeforeYear(_)
\* the days from 1 January 2024 to 1 January of year y
DaysBeforeYear(y) ==
    IF y <= 2024 THEN 0
    ELSE DaysBeforeYear(y - 1) + DaysBeforeMonth(y - 1, 12) + MonthLength(y - 1, 12)

\* day.getTime(), in whole days
DayNumber(date) == DaysBeforeYear(date.y) + DaysBeforeMonth(date.y, date.m) + date.d

\* Math.ceil(Math.abs(today.getTime() - day.getTime()) / (1000*60*60*24)),
\* day being a midnight and today a later time of its day
DiffDays(t, day) ==
    IF DayNumber(day) <= DayNumber(t) THEN DayNumber(t) - DayNumber(day) + 1
    ELSE DayNumber(day) - DayNumber(t)

\* days.filter(day => diffDays <= 7 || day.getMonth() === today.getMonth())
RecentDays(mk, t) ==
    {day \in DaysOfMonth(mk) : DiffDays(t, day) <= 7 \/ day.m = t.m}

\* one element of recentDays.map(...): every failure counts 0
WinDayRequest(o) ==
    IF o.settle = "resolve" /\ o.what # "null" THEN Return(LengthOf(o)) ELSE Return(0)

\* await Promise.all resolved: cache the table and publish it
WinJoined(monthKey, res) ==
    /\ results' = [month |-> monthKey, res |-> res]
    /\ cache' = CacheSet(monthKey, Aggregate(monthKey, res))
    /\ reportCounts' = Aggregate(monthKey, res)
    /\ loading' = FALSE

\* fetchReportCounts(date) of the trailing-window variant, up to the await;
\* with no recent day Promise.all([]) resolves at once
WinFetch(date) ==
    LET monthKey == FormatMonthKey(date)
        attempt == NewAttempt(monthKey, RecentDays(monthKey, today))
    IN IF IsCacheValid(monthKey)
       THEN /\ reportCounts' = cache[monthKey].counts
            /\ results' = NoResults
            /\ UNCHANGED <<loading, attempts, cache>>
       ELSE /\ Len(attempts) < MaxAttempts
            /\ IF RecentDays(monthKey, today) = {}
               THEN /\ WinJoined(monthKey, attempt.res)
                    /\ attempts' = Append(attempts, Finished(attempt, "committed"))
               ELSE /\ loading' = TRUE
                    /\ reportCounts' = ZeroTable(monthKey)
                    /\ attempts' = Append(attempts, attempt)
                    /\ results' = NoResults
                    /\ UNCHANGED cache

\* the effect that initializes the hook: the zero table of the current month
WinMount ==
    /\ strategy = "window"
    /\ mounted
    /\ ~isInitialized
    /\ isInitialized' = TRUE
    /\ currentMonthKey' = FormatMonthKey(today)
    /\ reportCounts' = ZeroTable(FormatMonthKey(today))
    /\ results' = NoResults
    /\ UNCHANGED <<strategy, api, today, mounted, calendarMonth, reportsVars, now, cache, loading, attempts, abortController>>

\* setSelectedDate(date) and the effect on selectedDate
WinSelectDate(date) ==
    /\ strategy = "window"
    /\ mounted
    /\ isInitialized
    /\ IF FormatMonthKey(date) # currentMonthKey \/ ~IsCacheValid(FormatMonthKey(date))
       THEN /\ currentMonthKey' = FormatMonthKey(date)
            /\ WinFetch(date)
       ELSE /\ results' = NoResults
            /\ UNCHANGED <<currentMonthKey, reportCounts, loading, attempts, cache>>
    /\ UNCHANGED <<strategy, api, today, mounted, calendarMonth, reportsVars, now, isInitialized, abortController>>

\* one day request of attempt i settles, and what the attempt does then
WinSettle(i, k, o) ==
    /\ strategy = "window"
    /\ Fetching(i)
    /\ k \in DOMAIN attempts[i].res
    /\ attempts[i].res[k] = Pending
    /\ LET res == [attempts[i].res EXCEPT
                     ![k] = [st |-> IF Succeeded(o) THEN "ok" ELSE "caught",
                             count |-> WinDayRequest(o).count]]
       IN IF AllSettled(res)
          THEN /\ WinJoined(attempts[i].month, res)
               /\ attempts' = [attempts EXCEPT ![i] = Finished(@, "committed")]
          ELSE /\ attempts' = [attempts EXCEPT ![i].res = res]
               /\ results' = NoResults
               /\ UNCHANGED <<cache, reportCounts, loading>>
    /\ UNCHANGED <<strategy, api, today, mounted, calendarMonth, reportsVars, now, currentMonthKey, isInitialized,
                   abortController>>

WinTodays == {Date(2025, 6, 29), Date(2025, 6, 10)}

InitWin ==
    /\ strategy = "window"
    /\ api \in {"array", "object"}
    /\ InitHookOnly
    /\ today \in WinTodays

NextWin ==
    \/ WinMount
    \/ \E date \in AllDates : WinSelectDate(date)
    \/ \E i \in Attempts : \E k \in DOMAIN attempts[i].res :
          \E o \in ListReportsOutcomes(k) : WinSettle(i, k, o)
    \/ Tick

SpecWin == InitWin /\ [][NextWin]_vars

\* the two fan-out variants, either of which may be the one mounted
InitFanWin == InitFan \/ InitWin

NextFanWin == NextFan \/ NextWin

SpecFanWin == InitFanWin /\ [][NextFanWin]_vars

---------------------------------------------------------------------------
(* Properties of the fan-out variant *)

\* attempt i finishes in this step by caching its table
Commits(i) ==
    /\ i \in Attempts
    /\ attempts[i].status = "fetching"
    /\ attempts'[i].status \in {"committed", "cached"}

\* C1: while another month is the active one, the published table is never
\* the table of a month an earlier aggregation was started for: whatever the
\* order in which the day requests of the two months settle, the result of
\* the superseded month is not shown.
C1_SupersededNeverPublished ==
    \A i \in Attempts :
        attempts[i].month # currentMonthKey
            => DOMAIN reportCounts # DayKeys(attempts[i].month)

\* an aggregation completed after the active month moved on, and another
\* month's table is on display
C1_Witness ==
    \E i \in Attempts :
        /\ attempts[i].status = "cached"
        /\ attempts[i].month # currentMonthKey
        /\ DOMAIN reportCounts = DayKeys(currentMonthKey)

\* C2: an aggregation that completes after the active month has moved on
\* writes nothing to the cache: an entry is created or overwritten only for
\* the month that is active at that moment.
C2_NoCacheWriteWhenSuperseded ==
    [][\A mk \in DOMAIN cache' :
          (mk \notin DOMAIN cache \/ cache'[mk] # cache[mk]) => mk = currentMonthKey]_vars

\* C3: only the most recently triggered attempt commits: an attempt that
\* finishes after a later attempt was started neither writes the cache nor
\* publishes.
C3_OnlyLatestAttemptCommits ==
    [][\A i \in Attempts : Commits(i) => i = Len(attempts)]_vars

\* C4: every committed table has exactly the days of its month as keys and
\* an integer >= 0 for every day.
C4_CommittedTableComplete ==
    \A mk \in DOMAIN cache :
        /\ DOMAIN cache[mk].counts = DayKeys(mk)
        /\ \A k \in DayKeys(mk) : cache[mk].counts[k] \in Nat

\* an entry for the month exists and its age is below the TTL
Fresh(mk) == mk \in DOMAIN cache /\ now - cache[mk].timestamp < TTL(strategy)

\* the dates the user can hand to the hook
RequestDates == AllDates \cup {Date(mk[1], mk[2], 1) : mk \in MonthKeys}

\* a step in which the hook is asked for the month of date
FanRequest(date) == FanSelectDate(date) \/ FanSetDisplayMonth(date)

\* a step in which the hook, whichever variant, is asked for the month of date
Request(date) == FanRequest(date) \/ BatchSelectDate(date) \/ WinSelectDate(date)

\* C5: with an entry for month M younger than the TTL, a request for M
\* (selecting a date in M, displaying M) leaves the cached table of M
\* published and starts no remote request; the cache is left alone.
C5_FreshEntryServedFromCache ==
    /\ [](isInitialized /\ Fresh(currentMonthKey)
            => reportCounts = cache[currentMonthKey].counts)
    /\ [][\A date \in RequestDates :
            Request(date) /\ Fresh(FormatMonthKey(date))
                => /\ currentMonthKey' = FormatMonthKey(date)
                   /\ reportCounts' = cache[FormatMonthKey(date)].counts
                   /\ Len(attempts') = Len(attempts)
                   /\ cache' = cache]_vars

\* a month other than the active one was requested while its entry was
\* fresh, and its cached table is on display with nothing in flight for it
C5_Witness ==
    /\ Len(attempts) >= 2
    /\ abortController = -1
    /\ now > 0
    /\ Fresh(currentMonthKey)
    /\ currentMonthKey # attempts[Len(attempts)].month
    /\ reportCounts = cache[currentMonthKey].counts

\* C6: with no entry for month M, or one of age >= TTL, a request for M
\* makes M the active month and starts exactly one aggregation for M (one
\* pending request per day of M); when an aggregation finishes, the entry of
\* its month is the table it built, stamped with the time of the commit.
C6_StaleEntryRefetched ==
    /\ [][\A date \in RequestDates :
            FanRequest(date) /\ ~Fresh(FormatMonthKey(date))
                => /\ currentMonthKey' = FormatMonthKey(date)
                   /\ Len(attempts') = Len(attempts) + 1
                   /\ attempts'[Len(attempts')] =
                        NewAttempt(FormatMonthKey(date),
                                   DaysOfMonth(FormatMonthKey(date)))]_vars
    /\ [][\A i \in Attempts :
            Commits(i)
                => cache'[attempts[i].month] =
                     [counts |-> Aggregate(attempts[i].month, results'.res),
                      timestamp |-> now]]_vars

\* the entry of the active month went stale and a request for the month
\* started a new aggregation, all of whose day requests are pending
C6_Witness ==
    /\ Len(attempts) = 2
    /\ attempts[1].status = "committed"
    /\ attempts[1].month = currentMonthKey
    /\ attempts[2] = NewAttempt(currentMonthKey, DaysOfMonth(currentMonthKey))
    /\ currentMonthKey \in DOMAIN cache
    /\ now - cache[currentMonthKey].timestamp >= TTL(strategy)
    /\ cache[currentMonthKey].counts # ZeroTable(currentMonthKey)
    /\ reportCounts = ZeroTable(currentMonthKey)

\* the continuation of await Promise.all ran in the run just made
Joined == DOMAIN results.res # {}

\* C8: when exactly one day request of an aggregation fails and the others
\* succeed, the aggregation commits, with 0 for the failed day and the count
\* the remote holds for every other day.
C8_OneFailureStillCommits ==
    (Joined /\ Cardinality({k \in DOMAIN results.res : results.res[k].st = "caught"}) = 1)
        => /\ results.month \in DOMAIN cache
           /\ \A k \in DOMAIN results.res :
                cache[results.month].counts[k] =
                    IF results.res[k].st = "caught" THEN 0 ELSE ReportsUnder(k)

\* C10: the promise of the fetch function never rejects, whatever the day
\* requests do (answer, fail, answer with a malformed payload, reject with
\* a value that is no Error), and an aggregation whose day requests all
\* fail still completes with 0 for every day: the table it caches is
\* all-zero, and when it ended in the catch block around Promise.all as
\* the only aggregation of the active month, the all-zero table it
\* published at its start is still the one on display.
C10_NeverRejects ==
    /\ \A i \in Attempts : attempts[i].status # "rejected"
    /\ (Joined /\ \A k \in DOMAIN results.res : results.res[k].st = "caught")
          => /\ results.month \in DOMAIN cache
             /\ cache[results.month].counts = ZeroTable(results.month)
    /\ \A i \in Attempts :
          (/\ attempts[i].status \in {"failed", "aborted"}
           /\ attempts[i].month = currentMonthKey
           /\ \A j \in Attempts : j # i => attempts[j].month # attempts[i].month)
              => reportCounts = ZeroTable(attempts[i].month)

\* every day request of an aggregation failed and it committed, and another
\* aggregation ended in the catch block around Promise.all
C10_Witness ==
    /\ Joined
    /\ \A k \in DOMAIN results.res : results.res[k].st = "caught"
    /\ \E i \in Attempts : attempts[i].status = "failed"

---------------------------------------------------------------------------
(* Properties of the batch variant *)

\* the 10 minutes of the scenario
TenMinutes == 10 * 60 * 1000

\* C7: isCacheValid is true exactly when an entry exists and its age is
\* strictly below the TTL; with the TTL at 10 minutes, a request for the
\* month of an entry computed at t = 0 starts no fetch before 10 minutes
\* have passed (9 min 59 s) and exactly one fetch from 10 min 0 s on
\* (10 min 0 s, 10 min 1 s).
C7_StrictFreshness ==
    /\ [](\A mk \in MonthKeys :
            IsCacheValid(mk) <=> (mk \in DOMAIN cache
                                  /\ now - cache[mk].timestamp < TTL(strategy)))
    /\ [][\A date \in AllDates :
            LET mk == FormatMonthKey(date) IN
            (/\ BatchSelectDate(date)
             /\ TTL(strategy) = TenMinutes
             /\ mk \in DOMAIN cache
             /\ cache[mk].timestamp = 0)
                => /\ now < TenMinutes => Len(attempts') = Len(attempts)
                   /\ now >= TenMinutes => /\ Len(attempts') = Len(attempts) + 1
                                           /\ attempts'[Len(attempts')].month = mk]_vars

\* an entry computed at t = 0 was read at exactly 10 minutes and a fetch
\* for its month is in flight
C7_Witness ==
    /\ now = TenMinutes
    /\ currentMonthKey \in DOMAIN cache
    /\ cache[currentMonthKey].timestamp = 0
    /\ Len(attempts) >= 2
    /\ attempts[Len(attempts)].month = currentMonthKey
    /\ attempts[Len(attempts)].status = "fetching"
    /\ \A i \in 1..(Len(attempts) - 1) : attempts[i].status # "fetching"

\* C9: when the month request fails, the aggregation commits an all-zero
\* table for its month: the table is written to the cache and published.
C9_FailureCommitsZeroTable ==
    [][\A i \in Attempts :
          (attempts[i].status = "fetching" /\ attempts'[i].status = "failed")
              => /\ attempts[i].month \in DOMAIN cache'
                 /\ cache'[attempts[i].month].counts = ZeroTable(attempts[i].month)
                 /\ reportCounts' = ZeroTable(attempts[i].month)]_vars

---------------------------------------------------------------------------
(* Properties of the counts, the mount and the teardown *)

\* C11: against the endpoint that answers with the documented object, the
\* table a completed aggregation commits holds, for every day whose request
\* was answered, the number of reports the bucket lists under the prefix of
\* the day, in the cache and, for the active month, on display.
C11_CountsMatchRemote ==
    (Joined /\ api = "object")
        => \A k \in DOMAIN results.res :
              results.res[k].st = "ok"
                  => /\ cache[results.month].counts[k] = ReportsUnder(k)
                     /\ results.month = currentMonthKey
                            => reportCounts[k] = ReportsUnder(k)

\* the effect that initializes the hook, whichever variant is mounted
Mount == FanMount \/ BatchMount \/ WinMount

\* C12: the mount makes the month of today the active month; with a fresh
\* entry for it the cached table is published and no request is started,
\* and otherwise exactly one aggregation for the month is started.
C12_MountFetchesOrServes ==
    [][Mount =>
         /\ currentMonthKey' = FormatMonthKey(today)
         /\ IF Fresh(FormatMonthKey(today))
            THEN /\ reportCounts' = cache[FormatMonthKey(today)].counts
                 /\ attempts' = attempts
            ELSE /\ Len(attempts') = Len(attempts) + 1
                 /\ attempts'[Len(attempts')].month = FormatMonthKey(today)
                 /\ attempts'[Len(attempts')].status = "fetching"]_vars

\* C13: once the component is unmounted, no step writes the cache or hands
\* a table to setReportCounts, whenever and in whatever order the day
\* requests that were in flight settle.
C13_NoCommitAfterTeardown ==
    [][~mounted => (cache' = cache /\ reportCounts' = reportCounts)]_vars

\* the month of today has been the active month since the mount: a change
\* to another month would have started an aggregation for that month
SameMonthThroughout ==
    /\ isInitialized
    /\ \A i \in Attempts : attempts[i].month = FormatMonthKey(today)

\* C14: while a month stays the active month and its entry, once written,
\* stays fresh, at most one aggregation commits for the month, also when
\* several dates of the month are selected while the first one is in flight.
C14_OneCommitPerEpoch ==
    (SameMonthThroughout /\ now < TTL(strategy))
        => Cardinality({i \in Attempts : attempts[i].status = "committed"}) <= 1

---------------------------------------------------------------------------
(* Properties of the loading flag *)

\* C15: in every state in which an aggregation started for the active
\* month has not finished, loading is true.
C15_LoadingWhileFetching ==
    (\E i \in Attempts : Fetching(i) /\ attempts[i].month = currentMonthKey)
        => loading

\* C16: whatever the month changes were, when no remote request is
\* outstanding any more, loading is false: the flag is not left stuck.
C16_LoadingNotStuck ==
    (\A i \in Attempts : ~Fetching(i)) => ~loading

---------------------------------------------------------------------------
(* Properties of the batch and trailing-window variants *)

\* attempt i finishes in this step
Finishes(i) ==
    /\ i \in Attempts
    /\ attempts[i].status = "fetching"
    /\ attempts'[i].status # "fetching"

\* C17: in the batch variant (and the trailing-window variant), an attempt
\* that finishes when its month is no longer the active month neither
\* writes the cache nor publishes a table.
C17_SupersededResponseDiscarded ==
    [][\A i \in Attempts :
          (Finishes(i) /\ attempts[i].month # currentMonthKey)
              => (cache' = cache /\ reportCounts' = reportCounts)]_vars

---------------------------------------------------------------------------
(* Properties of the failures and of the join *)

\* C18: an attempt of the fan-out variant ends without a table only on a
\* cancellation: if it ends other than by caching its table, a day request
\* failed with an AbortError, which is the one failure that is not counted
\* as 0, and the step writes no cache entry and publishes nothing.
C18_OnlyAbortPropagates ==
    [][\A i \in Attempts :
          (Finishes(i) /\ ~Commits(i))
              => /\ attempts'[i].status = "aborted"
                 /\ cache' = cache
                 /\ reportCounts' = reportCounts]_vars

\* a step in which a call of the fetch function went remote for month mk
Starts(mk) ==
    /\ Len(attempts') = Len(attempts) + 1
    /\ attempts'[Len(attempts')].month = mk
    /\ attempts'[Len(attempts')].status = "fetching"

\* C19: the step that starts an aggregation for a month on a cache miss
\* publishes the table with 0 for every day of the month, before any
\* request has settled, and leaves the cache as it is.
C19_ProvisionalZeroTable ==
    [][\A mk \in MonthKeys :
          Starts(mk) => (reportCounts' = ZeroTable(mk) /\ cache' = cache)]_vars

\* C20: an aggregation of the fan-out variant caches its table only in the
\* step in which the last of its day requests settles, with the result of
\* every day in the table, whatever the order of completion; a step that
\* settles a day request and leaves another one of the attempt pending
\* writes no cache entry and publishes no table.
C20_JoinBeforeCommit ==
    /\ [][\A i \in Attempts :
            Commits(i)
                => /\ results'.month = attempts[i].month
                   /\ DOMAIN results'.res = DOMAIN attempts[i].res
                   /\ \A k \in DOMAIN attempts[i].res :
                         /\ results'.res[k] # Pending
                         /\ attempts[i].res[k] # Pending
                               => results'.res[k] = attempts[i].res[k]]_vars
    /\ [][\A i \in Attempts :
            (/\ Fetching(i)
             /\ attempts'[i].status = "fetching"
             /\ attempts'[i].res # attempts[i].res)
                => (cache' = cache /\ reportCounts' = reportCounts)]_vars

\* an aggregation whose day requests were all answered has just cached the
\* counts of the remote, while another aggregation, one of whose requests
\* has settled and one is pending, has cached nothing
C20_Witness ==
    /\ Joined
    /\ api = "array"
    /\ Cardinality(DOMAIN results.res) = MaxDay
    /\ \A k \in DOMAIN results.res :
          /\ results.res[k].st = "ok"
          /\ cache[results.month].counts[k] = ReportsUnder(k)
    /\ \E i \in Attempts :
          /\ Fetching(i)
          /\ attempts[i].month \notin DOMAIN cache
          /\ \E k \in DOMAIN attempts[i].res : attempts[i].res[k] = Pending
          /\ \E k \in DOMAIN attempts[i].res : attempts[i].res[k] # Pending

---------------------------------------------------------------------------
(* Properties of the published table and of the cache *)

\* C21: in the fan-out variant, once the hook is initialized, the keys of
\* the published table are exactly the days of the active month.
C21_PublishedTableOfActiveMonth ==
    isInitialized => DOMAIN reportCounts = DayKeys(currentMonthKey)

\* the active month is not the month of the mount, an aggregation of
\* another month completed after the switch, and the counts on display are
\* the cached counts of the active month
C21_Witness ==
    /\ isInitialized
    /\ currentMonthKey # FormatMonthKey(today)
    /\ \E i \in Attempts :
          attempts[i].status = "cached" /\ attempts[i].month # currentMonthKey
    /\ currentMonthKey \in DOMAIN cache
    /\ reportCounts = cache[currentMonthKey].counts
    /\ reportCounts # ZeroTable(currentMonthKey)

\* C22: a step of the previous or next control of the Calendar makes the
\* month the Calendar shows the month of interest of the hook, whose
\* table, fetched or cached, is then the one on display.
C22_NavigationAdvancesMonth ==
    [][(HandlePreviousMonth \/ HandleNextMonth)
          => /\ currentMonthKey' = calendarMonth'
             /\ DOMAIN reportCounts' = DayKeys(calendarMonth')]_vars

\* C23: the cache changes only in a step in which an aggregation finishes
\* by caching its table, and then only in the entry of its month: mount,
\* requests, cache hits, freshness checks, failures, the passing of time
\* and the unmount leave every entry as it is, and no step removes one.
C23_CacheChangedOnlyByCommit ==
    [][/\ DOMAIN cache \subseteq DOMAIN cache'
       /\ cache' # cache
            => \E i \in Attempts :
                  /\ Commits(i)
                  /\ \A mk \in DOMAIN cache :
                        mk # attempts[i].month => cache'[mk] = cache[mk]]_vars

\* after the unmount, with the entries of two months in the cache, one of
\* them written before the other
C23_Witness ==
    /\ ~mounted
    /\ DOMAIN cache = MonthKeys
    /\ \E m1, m2 \in MonthKeys : cache[m1].timestamp < cache[m2].timestamp
    /\ \A i \in Attempts : ~Fetching(i)

\* C24: an entry whose age has reached the TTL is reported stale whatever
\* was read or published since it was written, because the timestamp of an
\* entry changes only in the step of a commit for its month, which sets it
\* to the time of the commit.
C24_HitDoesNotExtendLife ==
    /\ [](\A mk \in DOMAIN cache :
            now - cache[mk].timestamp >= TTL(strategy) => ~IsCacheValid(mk))
    /\ [][\A mk \in DOMAIN cache :
            cache'[mk].timestamp # cache[mk].timestamp
                => /\ \E i \in Attempts : Commits(i) /\ attempts[i].month = mk
                   /\ cache'[mk].timestamp = now]_vars

\* the entry of the active month, written at time 0, was served from the
\* cache by the last call of the fetch function and is stale now
C24_Witness ==
    /\ abortController = -1
    /\ currentMonthKey \in DOMAIN cache
    /\ cache[currentMonthKey].timestamp = 0
    /\ reportCounts = cache[currentMonthKey].counts
    /\ now >= TTL(strategy)
    /\ ~IsCacheValid(currentMonthKey)

\* C25: when the month request of the batch hook answers with a counts
\* mapping, the table it commits has exactly the days of the requested month,
\* each with the mapping's value for it, or 0 when the mapping has none: keys
\* that are not days of the month add no entry and the details listing is
\* not consulted.
C25_CountsMappingCopied ==
    [][\A i \in Attempts : \A o \in MonthOutcomes(attempts[i].month) :
          (o.what = "counts" /\ BatchSettle(i, o))
              => cache'[attempts[i].month].counts =
                    [k \in DayKeys(attempts[i].month) |->
                        IF k \in DOMAIN o.counts THEN o.counts[k] ELSE 0]]_vars

\* the part of C25 about days and about keys of other months: every day of
\* the month has the mapping's value or 0, and no day of another month is
\* in the table
C25_DaysFromMapping ==
    [][\A i \in Attempts : \A o \in MonthOutcomes(attempts[i].month) :
          (o.what = "counts" /\ BatchSettle(i, o))
              => LET t == cache'[attempts[i].month].counts IN
                 /\ DayKeys(attempts[i].month) \subseteq DOMAIN t
                 /\ \A k \in DayKeys(attempts[i].month) :
                       t[k] = IF k \in DOMAIN o.counts THEN o.counts[k] ELSE 0
                 /\ \A mk \in MonthKeys \ {attempts[i].month} :
                       DayKeys(mk) \cap DOMAIN t = {}]_vars

\* the first date pattern in path is the day string day
FirstDateIs(path, day) ==
    \E i \in 1..Len(path) :
        /\ IsDateAt(path, i)
        /\ \A j \in 1..(i - 1) : ~IsDateAt(path, j)
        /\ DayStrAt(path, i) = day

\* C26: when the month request of the batch hook answers with only a details
\* listing, the table it commits has exactly the days of the requested month,
\* each with the number of listed items whose first YYYY/MM/DD pattern is
\* that day; items without a date or with a date outside the month are not
\* counted and add no entry.
C26_DetailsGroupedByDay ==
    [][\A i \in Attempts : \A o \in MonthOutcomes(attempts[i].month) :
          (o.what = "details" /\ BatchSettle(i, o))
              => cache'[attempts[i].month].counts =
                    [k \in DayKeys(attempts[i].month) |->
                        Cardinality({n \in 1..Len(o.details) :
                                        FirstDateIs(o.details[n].path, k)})]]_vars

\* June's entry was built from a listing with stray items: day 2 counts its
\* MaxCount reports and the item under 2025/06/021/
C26_Witness ==
    /\ <<2025, 6>> \in DOMAIN cache
    /\ DOMAIN cache[<<2025, 6>>].counts = DayKeys(<<2025, 6>>)
    /\ cache[<<2025, 6>>].counts[<<2025, 6, 2>>] = MaxCount + 1
    /\ cache[<<2025, 6>>].counts[<<2025, 6, 1>>] = 2

---------------------------------------------------------------------------
(* Equivalence of the strategies *)

\* the answer of GET /list-reports for a prefix when nothing fails
ListReportsAnswer(prefix) ==
    [settle |-> "resolve", what |-> api, n |-> ReportsUnder(prefix), name |-> ""]

\* the table the fan-out of part_003 caches for a month when each of its day
\* requests, one per day of the month, is answered
FanOutTable(mk) ==
    Aggregate(mk, [k \in DayKeys(mk) |->
                      [st |-> "ok", count |-> DayRequest(ListReportsAnswer(k)).count]])

\* C27: for every month and every today, when none of its requests fails the
\* trailing-window variant commits the table that the fan-out with one request
\* per day of the month commits for the same remote contents.
C27_WindowEqualsFanOut ==
    (/\ strategy = "window"
     /\ results # NoResults
     /\ \A k \in DOMAIN results.res : results.res[k].st = "ok")
        => cache[results.month].counts = FanOutTable(results.month)

\* the month request was answered with the contents of the bucket: the
\* counts of its days, or the listing of their reports
AnswersMonth(mk, o) ==
    \/ o.what = "counts" /\ o.counts = BackendCounts(mk)
    \/ o.what = "details" /\ o.details = ListingFrom(mk, 1)

\* C28: for the same month and the same remote contents, with no failure,
\* the table the batch hook commits is, day by day, the table the fan-out
\* hook commits.
C28_BatchEqualsFanOut ==
    [][\A i \in Attempts : \A o \in MonthOutcomes(attempts[i].month) :
          (BatchSettle(i, o) /\ AnswersMonth(attempts[i].month, o))
              => cache'[attempts[i].month].counts = FanOutTable(attempts[i].month)]_vars

---------------------------------------------------------------------------
(* useReports: the list of reports of the selected date *)

\* the hook and the Calendar, which a run of useReports leaves alone
calendarVars ==
    <<strategy, api, today, now, cache, reportCounts, loading, currentMonthKey,
      isInitialized, abortController, attempts, results, mounted, calendarMonth>>

\* the date a prefix was formatted from
DateOfPrefix(prefix) == Date(prefix[1], prefix[2], prefix[3])

\* details.map((r, idx) => ({id: r.path || r.name || String(idx), ...}))
MapDetails(details) == [n \in 1..Len(details) |-> [id |-> details[n].path]]

\* the list setReports receives from the answer to listReports(prefix) that
\* holds n reports in its details
MappedReports(prefix, n) == MapDetails(ReportsOfDay(DateOfPrefix(prefix), n))

\* the effect on [prefix]: setLoading(true), setError(null), listReports(prefix)
ReportsEffect(date) ==
    /\ Len(listRequests) < MaxRequests
    /\ selectedPrefix' = FormatPrefix(date)
    /\ reportsLoading' = TRUE
    /\ error' = "null"
    /\ listRequests' = Append(listRequests,
                               [prefix |-> FormatPrefix(date), state |-> "pending"])
    /\ UNCHANGED reports
    /\ UNCHANGED calendarVars

\* the first run of the effect: selectedDate is useState(new Date()) of the
\* calendar hook
ReportsMount ==
    /\ mounted
    /\ selectedPrefix = NoPrefix
    /\ ReportsEffect(today)

\* setSelectedDate(date) with a date of another day: prefix changes and the
\* effect runs again
ReportsSelectDate(date) ==
    /\ mounted
    /\ selectedPrefix # NoPrefix
    /\ FormatPrefix(date) # selectedPrefix
    /\ ReportsEffect(date)

\* a call of listReports settles: then, catch and finally
ReportsSettle(i, o) ==
    /\ i \in 1..Len(listRequests)
    /\ listRequests[i].state = "pending"
    /\ IF o.settle = "resolve" /\ o.what # "null"
       THEN /\ reports' = IF o.what = "object"
                          THEN MappedReports(listRequests[i].prefix, o.n)
                          ELSE <<>>
            /\ UNCHANGED error
            /\ listRequests' = [listRequests EXCEPT ![i].state = "done"]
       ELSE /\ error' = IF o.what = "nullish" THEN error
                        ELSE IF o.what = "string" THEN "undefined"
                        ELSE "message"
            /\ UNCHANGED reports
            /\ listRequests' = [listRequests EXCEPT ![i].state = "failed"]
    /\ reportsLoading' = FALSE
    /\ UNCHANGED selectedPrefix
    /\ UNCHANGED calendarVars

InitReportsHook ==
    /\ strategy = "fanout"
    /\ api = "object"
    /\ InitHook
    /\ today \in Todays
    /\ calendarMonth = NoMonth
    /\ InitReports

NextReports ==
    \/ ReportsMount
    \/ \E date \in AllDates : ReportsSelectDate(date)
    \/ \E i \in 1..Len(listRequests) :
          \E o \in ListReportsOutcomes(listRequests[i].prefix) : ReportsSettle(i, o)

SpecReports == InitReportsHook /\ [][NextReports]_vars

\* C29: once every call of listReports has settled, none of them having
\* failed, the reports the hook holds are the answer for the selected date:
\* an answer for a date selected earlier that arrives late does not replace
\* the list of the date selected after it.
C29_ReportsOfSelectedDate ==
    (/\ selectedPrefix # NoPrefix
     /\ \A i \in 1..Len(listRequests) : listRequests[i].state = "done")
        => reports = MappedReports(selectedPrefix, ReportsUnder(selectedPrefix))

====
